---- MODULE Spec2Model ----
(***************************************************************************)
(* A model of boulder's cmd/config.go: the three file-or-literal accessors *)
(* (PasswordConfig.Pass, DBConfig.URL, AMQPConfig.ServerURL), the          *)
(* ConfigDuration JSON/YAML codec and PAConfig.CheckChallenges.            *)
(*                                                                         *)
(* Text (Go strings and byte slices) is a sequence of one-character        *)
(* strings.  time.Duration is an int64 count of nanoseconds; it is kept as *)
(* a sign and a sequence of decimal digits (most significant first, no     *)
(* leading zero, zero is the empty sequence) because the values of the     *)
(* minute and hour units do not fit the model checker's integers.          *)
(***************************************************************************)
EXTENDS Integers, Sequences, FiniteSets, TLC

VARIABLES
  cfg,        \* the config object under resolution: kind, literal, file
  fs,         \* the file system: path -> what ioutil.ReadFile returns now
  last,       \* what the most recent accessor call returned
  ncalls,     \* number of accessor calls made on cfg so far
  dur,        \* the ConfigDuration receiver's Duration field
  dres,       \* the most recent codec call: op, input, error, value before
  out,        \* the bytes the most recent MarshalJSON returned
  challenges, \* PAConfig.Challenges: a map from names to booleans
  cres        \* what the most recent CheckChallenges call returned

vars == <<cfg, fs, last, ncalls, dur, dres, out, challenges, cres>>
resolveVars == <<cfg, fs, last, ncalls>>
durationVars == <<dur, dres, out>>
policyVars == <<challenges, cres>>

(***************************************************************************)
(* Bounds.                                                                 *)
(***************************************************************************)
MaxLen == 2     \* longest file content, in characters
MaxCalls == 3   \* accessor calls per behaviour

(***************************************************************************)
(* Text helpers.                                                           *)
(***************************************************************************)
\* unicode.IsSpace on the Latin-1 range, as strings.TrimSpace uses it.
WhiteSpace == {" ", "\t", "\n", "\r", "\f"}

Alphabet == {" ", "\n", "a"}

Contents == UNION {[1..n -> Alphabet] : n \in 0..MaxLen}

Literals == {<<>>, <<"a">>, <<" ", "a", "\n">>}

Paths == {"/secret"}

RECURSIVE TrimRightAll(_, _)
TrimRightAll(s, cutset) ==
  IF s # <<>> /\ s[Len(s)] \in cutset
  THEN TrimRightAll(SubSeq(s, 1, Len(s) - 1), cutset)
  ELSE s

\* A plausible slip: only one trailing character is removed.
TrimRightOnce(s, cutset) ==
  IF s # <<>> /\ s[Len(s)] \in cutset THEN SubSeq(s, 1, Len(s) - 1) ELSE s

\* strings.TrimRight(s, cutset)
TrimRight(s, cutset) == TrimRightAll(s, cutset)

RECURSIVE TrimLeft(_, _)
TrimLeft(s, cutset) ==
  IF s # <<>> /\ s[1] \in cutset THEN TrimLeft(Tail(s), cutset) ELSE s

\* strings.TrimSpace(s)
TrimSpace(s) == TrimLeft(TrimRightAll(s, WhiteSpace), WhiteSpace)

(***************************************************************************)
(* The file system, as ioutil.ReadFile sees it.  err is "nil" for a        *)
(* readable file; ENOENT and EACCES fail at open and return no bytes; EIO  *)
(* fails while reading and returns the bytes read so far.                  *)
(***************************************************************************)
FileStates ==
  [err : {"nil", "EIO"}, data : Contents] \cup [err : {"ENOENT", "EACCES"}, data : {<<>>}]

ReadFile(fsys, path) == fsys[path]

Result(v, e, p, n) == [val |-> v, err |-> e, path |-> p, reads |-> n]

\* A plausible slip: the inline password wins over the file when it is set.
PassLiteralFirst(c, fsys) ==
  IF c.literal # <<>>
  THEN Result(c.literal, "nil", "", 0)
  ELSE IF c.file # ""
  THEN LET r == ReadFile(fsys, c.file) IN
       IF r.err # "nil" THEN Result(<<>>, r.err, c.file, 1)
       ELSE Result(TrimRight(r.data, {"\n"}), "nil", "", 1)
  ELSE Result(c.literal, "nil", "", 0)

\* A plausible slip: the first resolved value is remembered.
PassCached(c, fsys) ==
  IF ncalls > 0
  THEN Result(last.val, last.err, last.path, 0)
  ELSE IF c.file # ""
  THEN LET r == ReadFile(fsys, c.file) IN
       IF r.err # "nil" THEN Result(<<>>, r.err, c.file, 1)
       ELSE Result(TrimRight(r.data, {"\n"}), "nil", "", 1)
  ELSE Result(c.literal, "nil", "", 0)

\* PasswordConfig.Pass
Pass(c, fsys) ==
  IF c.file # ""
  THEN LET r == ReadFile(fsys, c.file) IN
       IF r.err # "nil" THEN Result(<<>>, r.err, c.file, 1)
       ELSE Result(TrimRight(r.data, {"\n"}), "nil", "", 1)
  ELSE Result(c.literal, "nil", "", 0)

\* A plausible slip: a failed read falls back to the inline connect string.
URLFallback(c, fsys) ==
  IF c.file # ""
  THEN LET r == ReadFile(fsys, c.file) IN
       IF r.err # "nil" THEN Result(c.literal, "nil", "", 1)
       ELSE Result(TrimSpace(r.data), "nil", "", 1)
  ELSE Result(c.literal, "nil", "", 0)

\* A plausible slip: the inline connect string is cleaned like the file's.
URLTrimLiteral(c, fsys) ==
  IF c.file # ""
  THEN LET r == ReadFile(fsys, c.file) IN
       Result(TrimSpace(r.data), r.err, IF r.err = "nil" THEN "" ELSE c.file, 1)
  ELSE Result(TrimSpace(c.literal), "nil", "", 0)

\* DBConfig.URL
URL(c, fsys) ==
  IF c.file # ""
  THEN LET r == ReadFile(fsys, c.file) IN
       Result(TrimSpace(r.data), r.err, IF r.err = "nil" THEN "" ELSE c.file, 1)
  ELSE Result(c.literal, "nil", "", 0)

\* A plausible slip: the emptiness check is left out.
ServerURLNoCheck(c, fsys) ==
  IF c.file # ""
  THEN LET r == ReadFile(fsys, c.file) IN
       Result(TrimRight(r.data, {"\n"}), r.err, IF r.err = "nil" THEN "" ELSE c.file, 1)
  ELSE Result(c.literal, "nil", "", 0)

\* AMQPConfig.ServerURL
ServerURL(c, fsys) ==
  IF c.file # ""
  THEN LET r == ReadFile(fsys, c.file) IN
       Result(TrimRight(r.data, {"\n"}), r.err, IF r.err = "nil" THEN "" ELSE c.file, 1)
  ELSE IF c.literal = <<>>
  THEN Result(<<>>, "MissingAMQPServerURL", "", 0)
  ELSE Result(c.literal, "nil", "", 0)

NoResult == [val |-> <<>>, err |-> "nil", path |-> "", reads |-> 0, differs |-> FALSE]

\* The call's result, with whether it differs from the call before it.
Record(r) ==
  [val |-> r.val, err |-> r.err, path |-> r.path, reads |-> r.reads,
   differs |-> ncalls > 0 /\ (r.val # last.val \/ r.err # last.err)]

InitResolve ==
  /\ cfg \in [kind : {"Pass", "URL", "ServerURL"}, literal : Literals,
              file : {""} \cup Paths]
  /\ fs \in [Paths -> FileStates]
  /\ last = NoResult
  /\ ncalls = 0

CallPass ==
  /\ cfg.kind = "Pass"
  /\ ncalls < MaxCalls
  /\ last' = Record(Pass(cfg, fs))
  /\ ncalls' = ncalls + 1
  /\ UNCHANGED <<cfg, fs, durationVars, policyVars>>

CallURL ==
  /\ cfg.kind = "URL"
  /\ ncalls < MaxCalls
  /\ last' = Record(URL(cfg, fs))
  /\ ncalls' = ncalls + 1
  /\ UNCHANGED <<cfg, fs, durationVars, policyVars>>

CallServerURL ==
  /\ cfg.kind = "ServerURL"
  /\ ncalls < MaxCalls
  /\ last' = Record(ServerURL(cfg, fs))
  /\ ncalls' = ncalls + 1
  /\ UNCHANGED <<cfg, fs, durationVars, policyVars>>

\* The backing file is rewritten, removed, made unreadable or starts failing.
ChangeFile ==
  /\ \E p \in Paths, st \in FileStates :
       /\ fs[p] # st
       /\ fs' = [fs EXCEPT ![p] = st]
  /\ UNCHANGED <<cfg, last, ncalls, durationVars, policyVars>>

(***************************************************************************)
(* Natural numbers as sequences of decimal digits, for int64 arithmetic.   *)
(***************************************************************************)
Front(a) == SubSeq(a, 1, Len(a) - 1)

LastDigit(a) == IF a = <<>> THEN 0 ELSE a[Len(a)]

NatNorm(a) == TrimLeft(a, {0})

RECURSIVE NatOfInt(_)
NatOfInt(n) == IF n = 0 THEN <<>> ELSE NatOfInt(n \div 10) \o <<n % 10>>

RECURSIVE LexLess(_, _)
LexLess(a, b) ==
  /\ a # <<>>
  /\ \/ a[1] < b[1]
     \/ a[1] = b[1] /\ LexLess(Tail(a), Tail(b))

NatLess(a, b) == Len(a) < Len(b) \/ (Len(a) = Len(b) /\ LexLess(a, b))

RECURSIVE AddCarry(_, _, _)
AddCarry(a, b, carry) ==
  IF a = <<>> /\ b = <<>>
  THEN NatOfInt(carry)
  ELSE LET t == LastDigit(a) + LastDigit(b) + carry IN
       AddCarry(IF a = <<>> THEN a ELSE Front(a),
                IF b = <<>> THEN b ELSE Front(b), t \div 10) \o <<t % 10>>

NatAdd(a, b) == NatNorm(AddCarry(a, b, 0))

RECURSIVE MulCarry(_, _, _)
MulCarry(a, k, carry) ==
  IF a = <<>>
  THEN NatOfInt(carry)
  ELSE LET t == a[Len(a)] * k + carry IN
       MulCarry(Front(a), k, t \div 10) \o <<t % 10>>

NatMulSmall(a, k) == NatNorm(MulCarry(a, k, 0))

\* a * 10^n
NatShift(a, n) == IF a = <<>> THEN a ELSE a \o [i \in 1..n |-> 0]

\* a \div 10^n
NatDropLast(a, n) == IF Len(a) <= n THEN <<>> ELSE SubSeq(a, 1, Len(a) - n)

\* Long division of a by the small number k: quotient digits and remainder.
RECURSIVE DivStep(_, _, _, _)
DivStep(a, k, rem, q) ==
  IF a = <<>>
  THEN [q |-> NatNorm(q), r |-> rem]
  ELSE LET cur == rem * 10 + a[1] IN
       DivStep(Tail(a), k, cur % k, q \o <<cur \div k>>)

NatDivSmall(a, k) == DivStep(a, k, 0, <<>>).q
NatModSmall(a, k) == NatOfInt(DivStep(a, k, 0, <<>>).r)

\* math.MaxInt64 = 1<<63 - 1
MaxInt64 == <<9, 2, 2, 3, 3, 7, 2, 0, 3, 6, 8, 5, 4, 7, 7, 5, 8, 0, 7>>

Overflows(a) == NatLess(MaxInt64, a)

(***************************************************************************)
(* time.Duration, its String method and time.ParseDuration.                *)
(***************************************************************************)
DigitChars == <<"0", "1", "2", "3", "4", "5", "6", "7", "8", "9">>
DigitSet == {DigitChars[i] : i \in 1..10}
DigitChar(n) == DigitChars[n + 1]
DigitVal(c) == CHOOSE n \in 0..9 : DigitChars[n + 1] = c
ToChars(a) == [i \in 1..Len(a) |-> DigitChar(a[i])]
ToDigits(s) == [i \in 1..Len(s) |-> DigitVal(s[i])]

\* The micro sign U+00B5 and the Greek letter mu U+03BC, each one character.
MicroSign == "U+00B5"
GreekMu == "U+03BC"

Dur(n, m) == [neg |-> n /\ m # <<>>, mag |-> m]
ZeroDuration == Dur(FALSE, <<>>)

\* fmtInt
FmtInt(v) == IF v = <<>> THEN <<"0">> ELSE ToChars(v)

\* fmtFrac: the last prec digits of v, trailing zeros and a bare point omitted.
RECURSIVE FmtFracLoop(_, _, _, _)
FmtFracLoop(v, i, print, acc) ==
  IF i = 0
  THEN [text |-> IF print THEN <<".">> \o acc ELSE acc, v |-> v]
  ELSE LET digit == LastDigit(v)
           p == print \/ digit # 0
       IN FmtFracLoop(IF v = <<>> THEN v ELSE Front(v), i - 1, p,
                      IF p THEN <<DigitChar(digit)>> \o acc ELSE acc)

FmtFrac(v, prec) == FmtFracLoop(v, prec, FALSE, <<>>)

\* Duration.String on the magnitude u (the sign is put in front afterwards).
\* Zero prints as "0s" (as "0" before Go 1.7; neither is a JSON string).
MagString(u) ==
  IF u = <<>>
  THEN <<"0", "s">>
  ELSE IF Len(u) <= 9
  THEN LET prec == IF Len(u) <= 3 THEN 0 ELSE IF Len(u) <= 6 THEN 3 ELSE 6
           unit == IF Len(u) <= 3 THEN <<"n", "s">>
                   ELSE IF Len(u) <= 6 THEN <<MicroSign, "s">> ELSE <<"m", "s">>
           fr == FmtFrac(u, prec)
       IN FmtInt(fr.v) \o fr.text \o unit
  ELSE LET fr == FmtFrac(u, 9)
           secs == fr.v
           mins == NatDivSmall(secs, 60)
           hours == NatDivSmall(mins, 60)
           s == FmtInt(NatModSmall(secs, 60)) \o fr.text \o <<"s">>
           m == IF mins = <<>> THEN <<>>
                ELSE FmtInt(NatModSmall(mins, 60)) \o <<"m">>
           h == IF hours = <<>> THEN <<>> ELSE FmtInt(hours) \o <<"h">>
       IN h \o m \o s

\* time.Duration.String
DurationString(d) == (IF d.neg THEN <<"-">> ELSE <<>>) \o MagString(d.mag)

RECURSIVE TakeWhile(_, _)
TakeWhile(s, set) ==
  IF s # <<>> /\ s[1] \in set THEN <<s[1]>> \o TakeWhile(Tail(s), set) ELSE <<>>

DropN(s, n) == SubSeq(s, n + 1, Len(s))

\* unitMap: v nanoseconds-per-unit times a, or "none" for an unknown unit.
UnitNames ==
  {<<"n", "s">>, <<"u", "s">>, <<MicroSign, "s">>, <<GreekMu, "s">>,
   <<"m", "s">>, <<"s">>, <<"m">>, <<"h">>}

TimesUnit(a, u) ==
  IF u = <<"n", "s">> THEN a
  ELSE IF u \in {<<"u", "s">>, <<MicroSign, "s">>, <<GreekMu, "s">>} THEN NatShift(a, 3)
  ELSE IF u = <<"m", "s">> THEN NatShift(a, 6)
  ELSE IF u = <<"s">> THEN NatShift(a, 9)
  ELSE IF u = <<"m">> THEN NatShift(NatMulSmall(a, 6), 10)
  ELSE NatShift(NatMulSmall(a, 36), 11)

ParseOK(d) == [d |-> d, err |-> "nil"]
ParseFail(e) == [d |-> ZeroDuration, err |-> e]

\* The loop of time.ParseDuration over the (number, unit) groups of s, with
\* d the sum so far.  Every overflow test of the code is a test against
\* MaxInt64.  The fraction is f * unit / scale rounded down, which is what
\* the code's float64 product gives for the inputs of this model.
RECURSIVE ParseGroups(_, _, _)
ParseGroups(s, d, neg) ==
  IF s = <<>>
  THEN ParseOK(Dur(neg, d))
  ELSE IF ~(s[1] = "." \/ s[1] \in DigitSet)
  THEN ParseFail("invalid duration")
  ELSE LET intChars == TakeWhile(s, DigitSet)
           v == NatNorm(ToDigits(intChars))
           s1 == DropN(s, Len(intChars))
           hasDot == s1 # <<>> /\ s1[1] = "."
           fracChars == IF hasDot THEN TakeWhile(Tail(s1), DigitSet) ELSE <<>>
           f == NatNorm(ToDigits(fracChars))
           s2 == IF hasDot THEN DropN(s1, 1 + Len(fracChars)) ELSE s1
           u == TakeWhile(s2, {s2[i] : i \in 1..Len(s2)} \ (DigitSet \cup {"."}))
           s3 == DropN(s2, Len(u))
           whole == TimesUnit(v, u)
           part == NatDropLast(TimesUnit(f, u), Len(fracChars))
           v2 == NatAdd(whole, part)
           d2 == NatAdd(d, v2)
       IN IF Overflows(v) THEN ParseFail("invalid duration")
          ELSE IF intChars = <<>> /\ fracChars = <<>> THEN ParseFail("invalid duration")
          ELSE IF u = <<>> THEN ParseFail("missing unit in duration")
          ELSE IF u \notin UnitNames THEN ParseFail("unknown unit in duration")
          ELSE IF Overflows(whole) \/ Overflows(v2) \/ Overflows(d2)
          THEN ParseFail("invalid duration")
          ELSE ParseGroups(s3, d2, neg)

\* time.ParseDuration
ParseDuration(s) ==
  LET signed == s # <<>> /\ s[1] \in {"-", "+"}
      neg == signed /\ s[1] = "-"
      body == IF signed THEN Tail(s) ELSE s
  IN IF body = <<"0">> THEN ParseOK(ZeroDuration)
     ELSE IF body = <<>> THEN ParseFail("invalid duration")
     ELSE ParseGroups(body, <<>>, neg)

(***************************************************************************)
(* encoding/json, as far as json.Unmarshal(b, &s) with s a string needs    *)
(* it: the document is one scalar.                                         *)
(***************************************************************************)
JSONSpace == {" ", "\t", "\r", "\n"}

Quote(s) == <<"\"">> \o s \o <<"\"">>

\* A string literal without escapes: quotes around characters that are
\* neither a quote, a backslash nor a control character.
IsJSONString(b) ==
  /\ Len(b) >= 2
  /\ b[1] = "\"" /\ b[Len(b)] = "\""
  /\ \A i \in 2..(Len(b) - 1) : b[i] \notin {"\"", "\\", "\n", "\r", "\t", "\f"}

\* The number grammar -?(0|[1-9][0-9]*)(\.[0-9]+)?([eE][+-]?[0-9]+)? as the
\* scanner's states.
RECURSIVE NumberScan(_, _)
NumberScan(b, st) ==
  IF b = <<>>
  THEN st \in {"zero", "int", "frac", "exp"}
  ELSE LET c == b[1]
           digit == c \in DigitSet
           nx == IF st = "start" /\ c = "-" THEN "neg"
                 ELSE IF st \in {"start", "neg"} /\ c = "0" THEN "zero"
                 ELSE IF st \in {"start", "neg"} /\ digit THEN "int"
                 ELSE IF st = "int" /\ digit THEN "int"
                 ELSE IF st \in {"zero", "int"} /\ c = "." THEN "dot"
                 ELSE IF st \in {"dot", "frac"} /\ digit THEN "frac"
                 ELSE IF st \in {"zero", "int", "frac"} /\ c \in {"e", "E"} THEN "e"
                 ELSE IF st = "e" /\ c \in {"+", "-"} THEN "esign"
                 ELSE IF st \in {"e", "esign", "exp"} /\ digit THEN "exp"
                 ELSE "bad"
       IN nx # "bad" /\ NumberScan(Tail(b), nx)

IsJSONNumber(b) == NumberScan(b, "start")

JSONKind(b) ==
  LET t == TrimLeft(TrimRightAll(b, JSONSpace), JSONSpace) IN
  IF t = <<"n", "u", "l", "l">> THEN "null"
  ELSE IF t \in {<<"t", "r", "u", "e">>, <<"f", "a", "l", "s", "e">>} THEN "bool"
  ELSE IF IsJSONString(t) THEN "string"
  ELSE IF IsJSONNumber(t) THEN "number"
  ELSE "invalid"

\* json.Unmarshal(b, &s) for s == "": a syntax error for an invalid document,
\* an UnmarshalTypeError for a number or boolean, the text for a string, and
\* for null no effect on s and no error.
JSONUnmarshalString(b) ==
  LET k == JSONKind(b)
      t == TrimLeft(TrimRightAll(b, JSONSpace), JSONSpace)
  IN IF k = "invalid" THEN [s |-> <<>>, err |-> "SyntaxError"]
     ELSE IF k \in {"number", "bool"} THEN [s |-> <<>>, err |-> "UnmarshalTypeError"]
     ELSE IF k = "null" THEN [s |-> <<>>, err |-> "nil"]
     ELSE [s |-> SubSeq(t, 2, Len(t) - 1), err |-> "nil"]

(***************************************************************************)
(* ConfigDuration.                                                         *)
(***************************************************************************)
Decoded(d, e) == [dur |-> d, err |-> e]

\* ConfigDuration.UnmarshalJSON on a receiver holding d
UnmarshalJSON(d, b) ==
  LET r == JSONUnmarshalString(b) IN
  IF r.err # "nil"
  THEN IF r.err = "UnmarshalTypeError"
       THEN Decoded(d, "ErrDurationMustBeString")
       ELSE Decoded(d, r.err)
  ELSE LET p == ParseDuration(r.s) IN Decoded(p.d, p.err)

\* ConfigDuration.MarshalJSON
MarshalJSON(d) == DurationString(d)

\* What the unmarshal callback handed to UnmarshalYAML does with &s for a
\* scalar node.  The callback is the caller's: for a node that is not a
\* string it either fails with its own type error or, as YAML decoders do for
\* scalars, stores the scalar's text (nothing for null).
CallbackOutcomes(node) ==
  IF node.tag = "str" THEN {[s |-> node.text, err |-> "nil"]}
  ELSE {[s |-> IF node.tag = "null" THEN <<>> ELSE node.text, err |-> "nil"],
        [s |-> <<>>, err |-> "YAMLTypeError"]}

\* ConfigDuration.UnmarshalYAML on a receiver holding d, cb the callback's outcome
UnmarshalYAML(d, cb) ==
  IF cb.err # "nil"
  THEN Decoded(d, cb.err)
  ELSE LET p == ParseDuration(cb.s) IN
       IF p.err # "nil" THEN Decoded(d, p.err) ELSE Decoded(p.d, "nil")

Durations ==
  {ZeroDuration,
   Dur(FALSE, <<1>>),                   \* 1ns
   Dur(FALSE, <<1, 5, 0, 0>>),          \* 1.5us
   Dur(FALSE, NatShift(<<5>>, 8)),      \* 500ms
   Dur(FALSE, NatShift(<<5>>, 9)),      \* 5s
   Dur(FALSE, NatShift(<<5, 4>>, 11)),  \* 1h30m
   Dur(TRUE, NatShift(<<5, 4>>, 11)),   \* -1h30m
   Dur(FALSE, MaxInt64)}

DurationTexts ==
  {<<"5", "0", "0", "m", "s">>,
   <<"1", "h", "3", "0", "m">>,
   <<"-", "1", ".", "5", "h">>,
   <<"1", ".", "5", MicroSign, "s">>,
   <<"0">>,
   <<>>,
   <<"b", "o", "g", "u", "s">>,
   <<"3", "0">>,
   <<"1", "d">>,
   <<"9", "2", "2", "3", "3", "7", "2", "0", "3", "7", "s">>}

JSONDocs ==
  {Quote(t) : t \in DurationTexts} \cup
  {<<"3", "0">>, <<"1", ".", "5">>, <<"t", "r", "u", "e">>, <<"n", "u", "l", "l">>,
   <<"0">>}

YAMLNodes ==
  {[tag |-> "str", text |-> t] : t \in DurationTexts} \cup
  {[tag |-> "int", text |-> <<"3", "0">>],
   [tag |-> "int", text |-> <<"0">>],
   [tag |-> "float", text |-> <<"1", ".", "5">>],
   [tag |-> "bool", text |-> <<"t", "r", "u", "e">>],
   [tag |-> "null", text |-> <<"~">>]}

NoCall == [op |-> "none", input |-> <<>>, kind |-> "none", err |-> "nil",
           before |-> ZeroDuration]

InitDuration ==
  /\ dur \in Durations
  /\ dres = NoCall
  /\ out = <<>>

DoUnmarshalJSON ==
  /\ \E b \in JSONDocs \cup (IF out = <<>> THEN {} ELSE {out}) :
       LET r == UnmarshalJSON(dur, b) IN
       /\ dur' = r.dur
       /\ dres' = [op |-> "UnmarshalJSON", input |-> b, kind |-> JSONKind(b),
                   err |-> r.err, before |-> dur]
  /\ UNCHANGED <<out, resolveVars, policyVars>>

DoUnmarshalYAML ==
  /\ \E node \in YAMLNodes : \E cb \in CallbackOutcomes(node) :
       LET r == UnmarshalYAML(dur, cb) IN
       /\ dur' = r.dur
       /\ dres' = [op |-> "UnmarshalYAML", input |-> node.text, kind |-> node.tag,
                   err |-> r.err, before |-> dur]
  /\ UNCHANGED <<out, resolveVars, policyVars>>

DoMarshalJSON ==
  /\ out' = MarshalJSON(dur)
  /\ dres' = [op |-> "MarshalJSON", input |-> <<>>, kind |-> "none", err |-> "nil",
              before |-> dur]
  /\ UNCHANGED <<dur, resolveVars, policyVars>>

(***************************************************************************)
(* PAConfig.CheckChallenges.                                               *)
(***************************************************************************)
ChallengeNames == {"http-01", "dns-01", "not-a-real-challenge", "tls-sni-02"}

\* core.ValidChallenge
ValidChallenge(name) == name \in {"http-01", "tls-sni-01", "dns-01"}

Checked(e, n, m) == [err |-> e, name |-> n, map |-> m]

\* A plausible slip: the loop stops at the first key, whatever it is.
CheckChallengesFirstKeyOnly(m) ==
  IF DOMAIN m = {}
  THEN {Checked("EmptyChallenges", "", m)}
  ELSE {IF ValidChallenge(name) THEN Checked("nil", "", m)
        ELSE Checked("InvalidChallenge", name, m) : name \in DOMAIN m}

\* PAConfig.CheckChallenges: the results the call can return for the map m.
\* The range loop visits the keys in an order the runtime picks, so any
\* unrecognized key can be the one the error names.
CheckChallenges(m) ==
  IF DOMAIN m = {}
  THEN {Checked("EmptyChallenges", "", m)}
  ELSE IF \A name \in DOMAIN m : ValidChallenge(name)
  THEN {Checked("nil", "", m)}
  ELSE {Checked("InvalidChallenge", name, m) :
          name \in {n \in DOMAIN m : ~ValidChallenge(n)}}

ChallengeMaps == UNION {[S -> BOOLEAN] : S \in SUBSET ChallengeNames}

NoCheck == [called |-> FALSE, err |-> "nil", name |-> "", before |-> <<>>]

InitPolicy ==
  /\ challenges \in ChallengeMaps
  /\ cres = NoCheck

DoCheckChallenges ==
  \E r \in CheckChallenges(challenges) :
    /\ cres' = [called |-> TRUE, err |-> r.err, name |-> r.name, before |-> challenges]
    /\ challenges' = r.map
    /\ UNCHANGED <<resolveVars, durationVars>>

(***************************************************************************)
(* Specifications: one per component, the other components at rest.        *)
(***************************************************************************)
RestResolve ==
  /\ cfg = [kind |-> "Pass", literal |-> <<>>, file |-> ""]
  /\ fs = [p \in Paths |-> [err |-> "ENOENT", data |-> <<>>]]
  /\ last = NoResult
  /\ ncalls = 0

RestDuration == dur = ZeroDuration /\ dres = NoCall /\ out = <<>>

RestPolicy == challenges = <<>> /\ cres = NoCheck

InitSpecResolve == InitResolve /\ RestDuration /\ RestPolicy

InitSpecDuration == RestResolve /\ InitDuration /\ RestPolicy

InitSpecPolicy == RestResolve /\ RestDuration /\ InitPolicy

NextResolve == CallPass \/ CallURL \/ CallServerURL \/ ChangeFile

NextDuration == DoUnmarshalJSON \/ DoUnmarshalYAML \/ DoMarshalJSON

NextPolicy == DoCheckChallenges

SpecResolve == InitSpecResolve /\ [][NextResolve]_vars

SpecDuration == InitSpecDuration /\ [][NextDuration]_vars

SpecPolicy == InitSpecPolicy /\ [][NextPolicy]_vars

(***************************************************************************)
(* Properties.                                                             *)
(***************************************************************************)
\* val is data with a run of characters of lead removed from the front and a
\* run of characters of trail removed from the back.
CoreOf(val, data, lead, trail) ==
  \E i \in 0..Len(data) : \E j \in i..Len(data) :
    /\ val = SubSeq(data, i + 1, j)
    /\ \A k \in 1..i : data[k] \in lead
    /\ \A k \in (j + 1)..Len(data) : data[k] \in trail

\* val is data with every character of lead removed from the front and every
\* character of trail removed from the back.
TrimmedOf(val, data, lead, trail) ==
  /\ CoreOf(val, data, lead, trail)
  /\ val # <<>> => val[1] \notin lead /\ val[Len(val)] \notin trail

CallStep == ncalls' = ncalls + 1

FileSet == cfg.file # ""

Called == ncalls > 0

\* C1: with the file-path field set and the file readable, each accessor
\* returns, with a nil error and after one read, the file's content less
\* edge whitespace and with no trailing newline, whatever the literal holds.
C1_FilePrecedence ==
  [][(CallStep /\ FileSet /\ fs[cfg.file].err = "nil") =>
       /\ last'.err = "nil"
       /\ last'.reads = 1
       /\ CoreOf(last'.val, fs[cfg.file].data, WhiteSpace, WhiteSpace)
       /\ last'.val # <<>> => last'.val[Len(last'.val)] # "\n"]_vars

C1_Witness ==
  /\ Called /\ FileSet /\ last.reads = 1 /\ last.err = "nil"
  /\ cfg.literal # <<>> /\ last.val # <<>> /\ last.val # cfg.literal

\* C2: with both fields empty ServerURL returns the missing-URL error and
\* the empty string, while Pass and URL return the empty string and nil.
C2_EmptyBoth ==
  (Called /\ ~FileSet /\ cfg.literal = <<>>) =>
    /\ last.val = <<>>
    /\ last.reads = 0
    /\ cfg.kind = "ServerURL" => last.err = "MissingAMQPServerURL"
    /\ cfg.kind \in {"Pass", "URL"} => last.err = "nil"

C2_Witness ==
  /\ Called /\ ~FileSet /\ cfg.literal = <<>>
  /\ cfg.kind = "ServerURL" /\ last.err = "MissingAMQPServerURL"

\* C3: with the file-path field set and the read failing, each accessor
\* returns the read's own error, carrying the path, and a string that comes
\* from the bytes read (or is empty), never the literal in place of them.
C3_ReadErrorSurfaced ==
  [][(CallStep /\ FileSet /\ fs[cfg.file].err # "nil") =>
       /\ last'.err = fs[cfg.file].err
       /\ last'.path = cfg.file
       /\ last'.reads = 1
       /\ \/ last'.val = <<>>
          \/ CoreOf(last'.val, fs[cfg.file].data, WhiteSpace, WhiteSpace)]_vars

C3_Witness ==
  /\ Called /\ FileSet /\ cfg.literal # <<>>
  /\ last.err \in {"ENOENT", "EACCES", "EIO"} /\ last.path = cfg.file

Reflects(r, kind, st) ==
  LET lead == IF kind = "URL" THEN WhiteSpace ELSE {}
      trail == IF kind = "URL" THEN WhiteSpace ELSE {"\n"}
  IN /\ r.err = st.err
     /\ r.path = (IF st.err = "nil" THEN "" ELSE cfg.file)
     /\ IF kind = "Pass" /\ st.err # "nil"
        THEN r.val = <<>>
        ELSE TrimmedOf(r.val, st.data, lead, trail)

\* C8: nothing is remembered between calls: every call with the file-path
\* field set reads the file once and returns what the file holds, or how it
\* fails, at that moment; a call without it reads nothing.
C8_NoCaching ==
  [][CallStep =>
       /\ last'.reads = (IF FileSet THEN 1 ELSE 0)
       /\ FileSet => Reflects(last', cfg.kind, fs[cfg.file])]_vars

C8_Witness == ncalls >= 2 /\ FileSet /\ last.reads = 1 /\ last.differs

\* C10 as claimed: Pass and ServerURL strip all trailing whitespace, URL
\* strips whitespace at both edges, and no result ends in whitespace.
C10_AsClaimed ==
  [][(CallStep /\ FileSet /\ fs[cfg.file].err = "nil") =>
       IF cfg.kind = "URL"
       THEN TrimmedOf(last'.val, fs[cfg.file].data, WhiteSpace, WhiteSpace)
       ELSE TrimmedOf(last'.val, fs[cfg.file].data, {}, WhiteSpace)]_vars

\* C10 amended: Pass and ServerURL strip trailing newline characters only
\* (other trailing whitespace and all leading characters stay) and their
\* result does not end in a newline; URL strips whitespace at both edges and
\* its result neither starts nor ends in whitespace.
C10_TrimPolicy ==
  [][(CallStep /\ FileSet /\ fs[cfg.file].err = "nil") =>
       IF cfg.kind = "URL"
       THEN TrimmedOf(last'.val, fs[cfg.file].data, WhiteSpace, WhiteSpace)
       ELSE TrimmedOf(last'.val, fs[cfg.file].data, {}, {"\n"})]_vars

C10_Witness ==
  /\ Called /\ FileSet /\ cfg.kind \in {"Pass", "ServerURL"}
  /\ last.reads = 1 /\ last.err = "nil"
  /\ last.val # <<>> /\ last.val[Len(last.val)] = " "

Decoding == dres.op \in {"UnmarshalJSON", "UnmarshalYAML"}

\* C4 as claimed: decoding a number, boolean or null fails with
\* ErrDurationMustBeString, in the JSON and in the YAML decoder.
C4_NonStringRejected ==
  (Decoding /\ dres.kind \in {"number", "int", "float", "bool", "null"}) =>
    dres.err = "ErrDurationMustBeString"

\* C5 as claimed: decoding what MarshalJSON returned for d succeeds and
\* leaves the receiver equal to d.
C5_RoundTrip ==
  (dres.op = "UnmarshalJSON" /\ dres.input = MarshalJSON(dres.before)) =>
    dres.err = "nil" /\ dur = dres.before

\* C9 as claimed: a decoder that returns an error leaves the receiver's
\* Duration as it was before the call.
C9_AllOrNothing == (Decoding /\ dres.err # "nil") => dur = dres.before

\* C6: CheckChallenges returns nil exactly for a non-empty map whose keys
\* the registry all accepts, the empty-policy error for an empty map, and
\* otherwise an error naming a key the registry rejects, whatever booleans
\* the map holds; the map is as it was before the call.
C6_CheckChallenges ==
  cres.called =>
    LET names == DOMAIN cres.before
        bad == {n \in names : ~ValidChallenge(n)}
    IN /\ challenges = cres.before
       /\ cres.err = "nil" <=> (names # {} /\ bad = {})
       /\ names = {} => cres.err = "EmptyChallenges"
       /\ bad # {} => cres.err = "InvalidChallenge" /\ cres.name \in bad

C6_Witness ==
  /\ cres.called /\ cres.err = "InvalidChallenge"
  /\ "http-01" \in DOMAIN challenges
  /\ cres.name = "not-a-real-challenge" /\ ~challenges[cres.name]

====
